---- MODULE Spec2Model ----
(***************************************************************************)
(* DexterMeetAgent: the controlled-recording subsystem.                    *)
(*                                                                         *)
(*   src/main.py           DexterMeetAgent  (the Recording Controller)     *)
(*   src/audio_capture.py  AudioCapture     (Sample Buffer, Delivery       *)
(*                                           Queue, Backend A, Backend B)  *)
(*   src/web_server.py     the transport: one request thread per control   *)
(*                         signal (Flask development server, threaded)     *)
(*                                                                         *)
(* Threads of the model: one thread per control signal (calls), one worker *)
(* thread per started parec reader (workers), one thread per post-stop     *)
(* processing pass (passes), the PortAudio driver thread of Backend A      *)
(* (driver) and a consumer of the Sample Buffer (consumer).  A step of a   *)
(* thread holds at most one access to state shared with other threads;    *)
(* a sleep is a position of the thread, left by its next step.             *)
(*                                                                         *)
(* The specifications:                                                     *)
(*   Spec         the application: control signals, each on its own        *)
(*                request thread and overlapping freely, drive the         *)
(*                controller, which drives Backend B.                      *)
(*   SpecSeq      the same application when each control signal arrives    *)
(*                after the previous call has returned (a subset of the    *)
(*                behaviours of Spec, explored over more signals).         *)
(*   SpecCapture  the AudioCapture object used through its own interface   *)
(*                by one client thread: both backends, the driver          *)
(*                callback, get_buffered_audio.                            *)
(*   SpecValidate the post-stop processing pass of a session that has been *)
(*                stopped, over the recordings the session can have left.  *)
(*   SpecSelect   the two device selection policies, over the inventories  *)
(*                the host audio layer can expose.                         *)
(***************************************************************************)
EXTENDS Naturals, Integers, Sequences, FiniteSets, TLC

\* ------------------------------------------------------------------ bounds
\* control signals of one run of Spec (they may all overlap)
MaxCalls == 2
\* control signals of one run of SpecSeq, direct calls of one run of SpecCapture
SeqCalls == 3
\* chunks the audio sources produce in one run
MaxChunks == 2
\* recorder processes / worker threads that can be created in one run
MaxProcs == 2
\* post-stop processing passes that can be created in one run
MaxPasses == 2
\* chunks of a recording handed to validation in SpecValidate
MaxRecorded == 3
\* devices of an inventory in SpecSelect
MaxDevices == 3
\* config.audio.sample_rate, scaled down so that 0.3 s is more than one
\* chunk and less than two (the source's default is 16000)
SampleRate == 2560

\* ------------------------------------------------------- program constants
\* buffer_size of the parec read loop, in bytes (two bytes per sample)
BufferSizeBytes == 1024
\* int16 full scale used by the normalisation
FullScale == 32768

Calls == 1..(IF MaxCalls > SeqCalls THEN MaxCalls ELSE SeqCalls)
ProcIds == 1..MaxProcs
PassIds == 1..MaxPasses
ChunkIds == 1..MaxChunks
\* the value None of a handle
None == 0

VARIABLES
    \* DexterMeetAgent
    agent_is_recording,     \* self.is_recording of the controller
    recording_buffer,       \* self.recording_buffer: sequence of chunks
    recording_start_time,   \* self.recording_start_time (0 = None)
    \* AudioCapture
    is_recording,           \* self.is_recording of the capture object
    parec_process,          \* self.parec_process: a process id or None
    parec_thread,           \* self.parec_thread: a worker id or None
    audio_callback,         \* self.audio_callback: "none" or the method set
    stream,                 \* self.stream: "none", "open", "started"
    audio_buffer,           \* self.audio_buffer: sequence of chunks
    audio_queue,            \* self.audio_queue: sequence of chunks
    buffer_lock,            \* holder of self.buffer_lock, or "free"
    \* environment
    procs,                  \* recorder processes: state of each
    nread,                  \* chunks produced so far by the audio sources
    \* threads
    calls,                  \* one per control signal / direct call
    workers,                \* _parec_capture_loop threads
    passes,                 \* _process_recorded_audio threads
    driver,                 \* the PortAudio thread running _audio_callback
    consumer,               \* a thread calling get_buffered_audio
    \* history
    appended,               \* chunks appended to audio_buffer, in order
    drained,                \* concatenation of what get_buffered_audio(True) returned
    delivered,              \* chunks passed to the user callback
    padded,                 \* per stop call: chunks recorded during its padding sleep
    session_of,             \* per chunk and per stop call: the session it belongs to
    \* transport and host audio layer
    web_events,             \* what send_to_web has posted to the web server, in order
    inventory,              \* the devices of the host audio layer, in index order
    unreadable,             \* the positions whose get_device_info_by_index raises
    found                   \* the result of the last device selection

agentVars == <<agent_is_recording, recording_buffer, recording_start_time>>
capVars == <<is_recording, parec_process, parec_thread, audio_callback, stream>>
bufVars == <<audio_buffer, audio_queue, buffer_lock>>
histVars == <<appended, drained, delivered, padded, session_of>>
selVars == <<inventory, unreadable, found>>
vars == <<agent_is_recording, recording_buffer, recording_start_time,
          is_recording, parec_process, parec_thread, audio_callback, stream,
          audio_buffer, audio_queue, buffer_lock, procs, nread,
          calls, workers, passes, driver, consumer,
          appended, drained, delivered, padded, session_of, web_events,
          inventory,
          unreadable, found>>

\* ----------------------------------------------------------------- helpers
Range(s) == {s[i] : i \in 1..Len(s)}

NewCall == [pc |-> "new", op |-> "none", result |-> "none", log |-> <<>>,
            target |-> 0, response |-> "none"]
\* A worker thread not yet created; proc is the recorder the capture object
\* held when the thread was started (audio_capture.py 276, 288-290).
NewWorker == [pc |-> "unborn", chunk |-> 0, exit |-> "none", proc |-> None]
\* The driver thread between two callbacks: no frame, no status flag, and
\* the directive the last callback returned.
NewDriver == [pc |-> "idle", chunk |-> 0, status |-> 0, directive |-> "none"]
NewPass == [pc |-> "unborn", by |-> 0, combined |-> <<>>, status |-> "none",
            message |-> "none"]

\* No device selection has been made.
NoSelection == [policy |-> "none", devices |-> <<>>, device |-> None]

\* The state after DexterMeetAgent() and AudioCapture() are constructed.
InitProgram ==
    /\ agent_is_recording = FALSE
    /\ recording_buffer = <<>>
    /\ recording_start_time = None
    /\ is_recording = FALSE
    /\ parec_process = None
    /\ parec_thread = None
    /\ audio_callback = "none"
    /\ stream = "none"
    /\ audio_buffer = <<>>
    /\ audio_queue = <<>>
    /\ buffer_lock = "free"
    /\ procs = [p \in ProcIds |-> "unborn"]
    /\ nread = 0
    /\ calls = [k \in Calls |-> NewCall]
    /\ workers = [w \in ProcIds |-> NewWorker]
    /\ passes = [p \in PassIds |-> NewPass]
    /\ driver = NewDriver
    /\ consumer = [pc |-> "idle", clear |-> FALSE, data |-> <<>>]
    /\ appended = <<>>
    /\ drained = <<>>
    /\ delivered = {}
    /\ padded = [k \in Calls |-> {}]
    /\ session_of = [chunk |-> [c \in ChunkIds |-> 0],
                     stop |-> [k \in Calls |-> 0]]
    /\ web_events = <<>>
    /\ found = NoSelection

\* The recording path of the application opens no PyAudio device.
Init == InitProgram /\ inventory = <<>> /\ unreadable = {}

\* A control signal (or a direct call) arrives on a thread of its own;
\* calls arrive in order, and earlier ones may still be in progress.
Arrives(k) ==
    /\ calls[k].pc = "new"
    /\ k > 1 => calls[k - 1].pc # "new"

\* main.py 121-123, 158: a session of the controller lasts from the step
\* that sets is_recording and recording_start_time to the step that clears
\* is_recording; it is named by the start call that opened it (0: none).
\* A stop call works for the session it finds open at main.py 147.
CurrentSession == IF agent_is_recording THEN recording_start_time ELSE 0

\* Chunk c is captured now: it belongs to the session that is open.
Captured(c) == [session_of EXCEPT !.chunk[c] = CurrentSession]

\* No call is in progress.
Quiet == \A j \in Calls : calls[j].pc \in {"new", "done"}

\* Positions of a call.  log holds what the call has done to the backend so
\* far, target the process its wait() was made on; both are locals of the
\* call and go when it returns.
Entered(k, op, pc) ==
    [calls EXCEPT ![k] = [pc |-> pc, op |-> op, result |-> "none",
                          log |-> <<>>, target |-> 0, response |-> "none"]]

\* web_server.py 122-125, 138-141: the handler binds what the controller
\* returned to 'result', does not look at it and answers success (200).
Response(result) == "success"

\* The call returns r; a control signal is answered by the transport.
Returned(k, op, r) ==
    [calls EXCEPT ![k] = [pc |-> "done", op |-> op, result |-> r,
                          log |-> <<>>, target |-> 0,
                          response |-> IF op \in {"start", "stop"}
                                       THEN Response(r) ELSE "none"]]
Goto(k, pc) == [calls EXCEPT ![k].pc = pc]
GotoLog(k, pc, what) == [calls EXCEPT ![k].pc = pc, ![k].log = @ \o what]

WorkerAlive(w) == workers[w].pc \notin {"unborn", "unstarted", "done"}
ProcAlive(p) == procs[p] \in {"running", "terminating"}
FreshProcs == {p \in ProcIds : procs[p] = "unborn"}
FreshWorkers == {w \in ProcIds : workers[w].pc = "unborn"}
FreshPasses == {p \in PassIds : passes[p].pc = "unborn"}
Least(S) == CHOOSE x \in S : \A y \in S : x <= y

\* main.py 84-98: send_to_web posts 'transcription' and 'response' events to
\* the web server, which emits them to the observers (web_server.py 97-115);
\* an event of any other type, 'status' included, matches neither branch and
\* nothing is sent.  (The POST is taken to succeed; when it fails the
\* exception is logged and nothing is sent either.)
send_to_web(event_type, data) ==
    IF event_type \in {"transcription", "response"}
    THEN Append(web_events, <<event_type, data>>)
    ELSE web_events

\* ------------------------------------------- Recording Controller: start
\* start_controlled_recording without the test at main.py 117: every start
\* goes on to arm the backend.
start_controlled_recording_NoTest(k) ==
    /\ Arrives(k)
    /\ calls' = Entered(k, "start", "s121")
    /\ UNCHANGED <<agentVars, capVars, bufVars, procs, nread, workers, passes,
                   driver, consumer, histVars, web_events, selVars>>

\* main.py 115-118: the request arrives and start_controlled_recording tests
\* the controller's flag; when it is set the call returns True at once.
start_controlled_recording(k) ==
    /\ Arrives(k)
    /\ calls' = IF agent_is_recording THEN Returned(k, "start", "true")
                ELSE Entered(k, "start", "s121")
    /\ UNCHANGED <<agentVars, capVars, bufVars, procs, nread, workers, passes,
                   driver, consumer, histVars, web_events, selVars>>

\* main.py 121-126: flag set, accumulation buffer reset, start time noted
\* (the model's clock is the number of the call), the user callback
\* installed; then the backend is called (127).
StartArm(k) ==
    /\ calls[k].pc = "s121"
    /\ agent_is_recording' = TRUE
    /\ recording_buffer' = <<>>
    /\ recording_start_time' = k
    /\ audio_callback' = "add_audio_to_recording"
    /\ calls' = Goto(k, "b265")
    /\ UNCHANGED <<is_recording, parec_process, parec_thread, stream, bufVars,
                   procs, nread, workers, passes, driver, consumer, histVars,
                   web_events, selVars>>

\* ------------------------------------------------------ Backend B: start
\* A direct call of start_monitor_capture_parec arrives.
start_monitor_capture_parec(k) ==
    /\ Arrives(k)
    /\ calls' = Entered(k, "b_start", "b265")
    /\ UNCHANGED <<agentVars, capVars, bufVars, procs, nread, workers, passes,
                   driver, consumer, histVars, web_events, selVars>>

\* What the caller of start_monitor_capture_parec does with False: the
\* controller goes to main.py 137, a direct caller has its result.
ParecFailed(k, what) ==
    IF calls[k].op = "start" THEN GotoLog(k, "s137", what)
    ELSE Returned(k, calls[k].op, "false")

\* audio_capture.py 265-267: refuse when a capture is active.
ParecCheck(k) ==
    /\ calls[k].pc = "b265"
    /\ calls' = IF is_recording THEN ParecFailed(k, <<"refused">>)
                ELSE Goto(k, "b276")
    /\ UNCHANGED <<agentVars, capVars, bufVars, procs, nread, workers, passes,
                   driver, consumer, histVars, web_events, selVars>>

\* audio_capture.py 276-283: Popen starts the recorder and its handle is
\* stored, or Popen raises (parec missing) and the except clause (295-297)
\* returns False.
ParecPopen(k) ==
    /\ calls[k].pc = "b276"
    /\ \/ /\ FreshProcs # {}
          /\ procs' = [procs EXCEPT ![Least(FreshProcs)] = "running"]
          /\ parec_process' = Least(FreshProcs)
          /\ calls' = GotoLog(k, "b285", <<"popen">>)
       \/ /\ calls' = ParecFailed(k, <<"popen_raised">>)
          /\ UNCHANGED <<procs, parec_process>>
    /\ UNCHANGED <<agentVars, is_recording, parec_thread, audio_callback, stream,
                   bufVars, nread, workers, passes, driver, consumer, histVars,
                   web_events, selVars>>

\* audio_capture.py 285
ParecSetFlag(k) ==
    /\ calls[k].pc = "b285"
    /\ is_recording' = TRUE
    /\ calls' = Goto(k, "b288")
    /\ UNCHANGED <<agentVars, parec_process, parec_thread, audio_callback, stream,
                   bufVars, procs, nread, workers, passes, driver, consumer,
                   histVars, web_events, selVars>>

\* audio_capture.py 288-293: the Thread object is stored, then started, and
\* the call returns True (main.py 129-135 then sends the 'recording' status
\* with send_to_web and returns True as well).  When
\* Thread.start raises, the except clause (295-297) returns False.
ParecThreadStart(k) ==
    /\ calls[k].pc = "b288"
    /\ FreshWorkers # {}
    /\ parec_thread' = Least(FreshWorkers)
    /\ \/ /\ workers' = [workers EXCEPT ![Least(FreshWorkers)].pc = "w305",
                                        ![Least(FreshWorkers)].proc =
                                           parec_process]
          /\ calls' = Returned(k, calls[k].op, "true")
          /\ web_events' = IF calls[k].op = "start"
                           THEN send_to_web("status", "recording")
                           ELSE web_events
       \/ /\ workers' = [workers EXCEPT ![Least(FreshWorkers)].pc = "unstarted"]
          /\ calls' = ParecFailed(k, <<"thread_raised">>)
          /\ web_events' = web_events
    /\ UNCHANGED <<agentVars, is_recording, parec_process, audio_callback, stream,
                   bufVars, procs, nread, passes, driver, consumer, histVars,
                   selVars>>

\* The failure branch without main.py 137: the flag stays set.
StartFailed_FlagKept(k) ==
    /\ calls[k].pc = "s137"
    /\ calls' = Returned(k, "start", "false")
    /\ UNCHANGED <<agentVars, capVars, bufVars, procs, nread, workers, passes,
                   driver, consumer, histVars, web_events, selVars>>

\* main.py 136-138: the backend returned False.
StartFailed(k) ==
    /\ calls[k].pc = "s137"
    /\ agent_is_recording' = FALSE
    /\ calls' = Returned(k, "start", "false")
    /\ UNCHANGED <<recording_buffer, recording_start_time, capVars, bufVars,
                   procs, nread, workers, passes, driver, consumer, histVars,
                   web_events, selVars>>

\* -------------------------------------------- Recording Controller: stop
\* stop_recording_speakers without the test at main.py 147: every stop goes
\* to the padding sleep.
stop_recording_speakers_NoTest(k) ==
    /\ Arrives(k)
    /\ calls' = Entered(k, "stop", "t153")
    /\ session_of' = [session_of EXCEPT !.stop[k] = CurrentSession]
    /\ UNCHANGED <<agentVars, capVars, bufVars, procs, nread, workers, passes,
                   driver, consumer, appended, drained, delivered, padded,
                   web_events, selVars>>

\* main.py 145-153: the request arrives and stop_recording_speakers tests the
\* controller's flag; when it is clear the call returns True at once, else
\* the thread goes to sleep for end_buffer_seconds.
stop_recording_speakers(k) ==
    /\ Arrives(k)
    /\ calls' = IF ~agent_is_recording THEN Returned(k, "stop", "true")
                ELSE Entered(k, "stop", "t153")
    /\ session_of' = [session_of EXCEPT !.stop[k] = CurrentSession]
    /\ UNCHANGED <<agentVars, capVars, bufVars, procs, nread, workers, passes,
                   driver, consumer, appended, drained, delivered, padded,
                   web_events, selVars>>

\* ------------------------------------------------------- Backend B: stop
\* A direct call of stop_monitor_capture arrives.
stop_monitor_capture(k) ==
    /\ Arrives(k)
    /\ calls' = Entered(k, "b_stop", "c353")
    /\ UNCHANGED <<agentVars, capVars, bufVars, procs, nread, workers, passes,
                   driver, consumer, histVars, web_events, selVars>>

\* main.py 153-156, audio_capture.py 350-356: (in the controller, the padding
\* sleep ends and the backend stop is called;) the active flag is cleared
\* and the thread sleeps 0.2 s.
StopMonitorClearFlag(k) ==
    /\ calls[k].pc \in {"t153", "c353"}
    /\ is_recording' = FALSE
    /\ calls' = GotoLog(k, "c356",
                        IF calls[k].pc = "t153" THEN <<"padding", "clear_flag">>
                        ELSE <<"clear_flag">>)
    /\ UNCHANGED <<agentVars, parec_process, parec_thread, audio_callback, stream,
                   bufVars, procs, nread, workers, passes, driver, consumer,
                   histVars, web_events, selVars>>

\* audio_capture.py 356-361: the grace sleep ends; with a handle, terminate()
\* sends SIGTERM to the process the handle names now.
StopMonitorTerminate(k) ==
    /\ calls[k].pc = "c356"
    /\ IF parec_process = None
       THEN /\ calls' = GotoLog(k, "c372", <<"grace">>)
            /\ procs' = procs
       ELSE /\ calls' = GotoLog(k, "c362", <<"grace", "terminate">>)
            /\ procs' = [procs EXCEPT ![parec_process] =
                           IF @ = "running" THEN "terminating" ELSE @]
    /\ UNCHANGED <<agentVars, capVars, bufVars, nread, workers, passes, driver,
                   consumer, histVars, web_events, selVars>>

\* What a caller of stop_monitor_capture sees when it raises: the controller's
\* except clause (main.py 172-174) prints and returns False.
StopMonitorRaised(k) ==
    IF calls[k].op = "stop" THEN Returned(k, "stop", "false")
    ELSE Returned(k, calls[k].op, "raised")

\* audio_capture.py 362: wait(timeout=2) on the handle as it is now.  A
\* handle cleared meanwhile raises AttributeError, caught at 367; a process
\* that got SIGTERM exits within the two seconds or not; one that got none
\* does not.
StopMonitorWait(k) ==
    /\ calls[k].pc = "c362"
    /\ \/ /\ parec_process = None
          /\ calls' = GotoLog(k, "c369", <<"wait_raised">>)
          /\ procs' = procs
       \/ /\ parec_process # None
          /\ procs[parec_process] \in {"terminating", "exited"}
          /\ procs' = [procs EXCEPT ![parec_process] = "exited"]
          /\ calls' = [calls EXCEPT ![k].pc = "c369", ![k].log = @ \o <<"wait">>,
                                    ![k].target = parec_process]
       \/ /\ parec_process # None
          /\ procs[parec_process] # "exited"
          /\ calls' = [calls EXCEPT ![k].pc = "c366", ![k].log = @ \o <<"timeout">>,
                                    ![k].target = parec_process]
          /\ procs' = procs
    /\ UNCHANGED <<agentVars, capVars, bufVars, nread, workers, passes, driver,
                   consumer, histVars, web_events, selVars>>

\* audio_capture.py 364-366: in the TimeoutExpired clause, kill() on the
\* handle as it is now.  An exception raised here (AttributeError on a handle
\* cleared meanwhile, OSError from kill) is raised inside an except clause, so
\* the clause at 367 does not catch it and it leaves stop_monitor_capture.
StopMonitorKill(k) ==
    /\ calls[k].pc = "c366"
    /\ \/ /\ parec_process # None
          /\ procs' = [procs EXCEPT ![parec_process] = "exited"]
          /\ calls' = [calls EXCEPT ![k].pc = "c369", ![k].log = @ \o <<"kill">>,
                                    ![k].target = parec_process]
       \/ /\ calls' = StopMonitorRaised(k)
          /\ procs' = procs
    /\ UNCHANGED <<agentVars, capVars, bufVars, nread, workers, passes, driver,
                   consumer, histVars, web_events, selVars>>

\* audio_capture.py 369
StopMonitorRelease(k) ==
    /\ calls[k].pc = "c369"
    /\ parec_process' = None
    /\ calls' = Goto(k, "c372")
    /\ UNCHANGED <<agentVars, is_recording, parec_thread, audio_callback, stream,
                   bufVars, procs, nread, workers, passes, driver, consumer,
                   histVars, web_events, selVars>>

\* What follows the return of stop_monitor_capture: main.py 158 in the
\* controller, the result for a direct caller.
StopMonitorReturn(k, what) ==
    IF calls[k].op = "stop" THEN GotoLog(k, "t158", what)
    ELSE Returned(k, calls[k].op, "returned")

\* stop_monitor_capture without the join at audio_capture.py 373: it returns
\* whether the worker is alive or not.
StopMonitorJoinCheck_NoJoin(k) ==
    /\ calls[k].pc = "c372"
    /\ calls' = StopMonitorReturn(k, <<>>)
    /\ UNCHANGED <<agentVars, capVars, bufVars, procs, nread, workers, passes,
                   driver, consumer, histVars, web_events, selVars>>

\* audio_capture.py 372: join only a thread that is alive.
StopMonitorJoinCheck(k) ==
    /\ calls[k].pc = "c372"
    /\ calls' = IF parec_thread # None /\ WorkerAlive(parec_thread)
                THEN Goto(k, "c373")
                ELSE StopMonitorReturn(k, <<>>)
    /\ UNCHANGED <<agentVars, capVars, bufVars, procs, nread, workers, passes,
                   driver, consumer, histVars, web_events, selVars>>

\* stop_monitor_capture with a join that has no timeout: it returns only
\* when the worker has finished.
StopMonitorJoin_NoTimeout(k) ==
    /\ calls[k].pc = "c373"
    /\ ~(parec_thread # None /\ WorkerAlive(parec_thread))
    /\ calls' = StopMonitorReturn(k, <<"join">>)
    /\ UNCHANGED <<agentVars, capVars, bufVars, procs, nread, workers, passes,
                   driver, consumer, histVars, web_events, selVars>>

\* audio_capture.py 373-377: join(timeout=1) ends because the worker has
\* finished or because the second is over; an overrun is logged only.
StopMonitorJoin(k) ==
    /\ calls[k].pc = "c373"
    /\ calls' = IF parec_thread # None /\ WorkerAlive(parec_thread)
                THEN StopMonitorReturn(k, <<"join_timeout">>)
                ELSE StopMonitorReturn(k, <<"join">>)
    /\ UNCHANGED <<agentVars, capVars, bufVars, procs, nread, workers, passes,
                   driver, consumer, histVars, web_events, selVars>>

\* main.py 158-164: the controller's flag is cleared and the 'processing'
\* status sent with send_to_web.
StopSetIdle(k) ==
    /\ calls[k].pc = "t158"
    /\ agent_is_recording' = FALSE
    /\ calls' = Goto(k, "t167")
    /\ web_events' = send_to_web("status", "processing")
    /\ UNCHANGED <<recording_buffer, recording_start_time, capVars, bufVars,
                   procs, nread, workers, passes, driver, consumer, histVars,
                   selVars>>

\* main.py 167-174: the processing thread is started and the call returns
\* True; when Thread.start raises, the except clause returns False.
StopSpawn(k) ==
    /\ calls[k].pc = "t167"
    /\ \/ /\ FreshPasses # {}
          /\ passes' = [passes EXCEPT ![Least(FreshPasses)] =
                          [pc |-> "p179", by |-> k, combined |-> <<>>,
                           status |-> "none", message |-> "none"]]
          /\ calls' = Returned(k, "stop", "true")
       \/ /\ calls' = Returned(k, "stop", "false")
          /\ passes' = passes
    /\ UNCHANGED <<agentVars, capVars, bufVars, procs, nread, workers, driver,
                   consumer, histVars, web_events, selVars>>

\* ------------------------------------------------ Backend B: worker thread
\* audio_capture.py 343-346: the worker has left the loop, by the loop
\* condition (305), by a break (308, 314) or by an exception caught at 343;
\* after the log line of the finally clause the thread ends.
LoopLeft(how) == [pc |-> "done", chunk |-> 0, exit |-> how, proc |-> None]

\* A loop that also ends once the Delivery Queue holds a frame.
ParecLoopCheck_EndsWhenQueued(w) ==
    /\ workers[w].pc = "w305"
    /\ workers' = [workers EXCEPT ![w] =
                     IF is_recording /\ parec_process # None
                        /\ ProcAlive(parec_process) /\ audio_queue = <<>>
                     THEN [@ EXCEPT !.pc = "w311"]
                     ELSE LoopLeft("condition")]
    /\ UNCHANGED <<agentVars, capVars, bufVars, procs, nread, calls, passes,
                   driver, consumer, histVars, web_events, selVars>>

\* audio_capture.py 305: the loop condition reads the flag and the handle as
\* they are now (not the process this worker was started for).
ParecLoopCheck(w) ==
    /\ workers[w].pc = "w305"
    /\ workers' = [workers EXCEPT ![w] =
                     IF is_recording /\ parec_process # None
                        /\ ProcAlive(parec_process)
                     THEN [@ EXCEPT !.pc = "w311"]
                     ELSE LoopLeft("condition")]
    /\ UNCHANGED <<agentVars, capVars, bufVars, procs, nread, calls, passes,
                   driver, consumer, histVars, web_events, selVars>>

\* audio_capture.py 307-320: the blocking read of up to 1024 bytes from the
\* stdout of the handle as it is now.  A live recorder delivers the next
\* chunk of the audio; an exited one gives a zero-length read (break); a
\* handle cleared meanwhile raises AttributeError, caught at 343.  A chunk is
\* converted as soon as it is read (317); a read that fails (OSError) or
\* that returns an odd number of bytes (ValueError from np.frombuffer) raises
\* as well, and the exception is caught at 343.  The pipe is taken to be
\* drained when the recorder exits, so the zero-sample continue at 319 does
\* not arise.
ParecRead(w) ==
    /\ workers[w].pc = "w311"
    /\ \/ /\ parec_process # None
          /\ ProcAlive(parec_process)
          /\ nread < MaxChunks
          /\ nread' = nread + 1
          /\ workers' = [workers EXCEPT ![w] = [@ EXCEPT !.pc = "w324",
                                                          !.chunk = nread + 1]]
          /\ session_of' = Captured(nread + 1)
       \/ /\ parec_process # None
          /\ procs[parec_process] = "exited"
          /\ workers' = [workers EXCEPT ![w] = LoopLeft("eof")]
          /\ UNCHANGED <<nread, session_of>>
       \/ /\ parec_process = None
          /\ workers' = [workers EXCEPT ![w] = LoopLeft("raised")]
          /\ UNCHANGED <<nread, session_of>>
       \/ /\ parec_process # None
          /\ ProcAlive(parec_process)
          /\ workers' = [workers EXCEPT ![w] = LoopLeft("raised")]
          /\ UNCHANGED <<nread, session_of>>
    /\ UNCHANGED <<agentVars, capVars, bufVars, procs, calls, passes, driver,
                   consumer, appended, drained, delivered, padded, web_events,
                   selVars>>

\* A callback that records every chunk it is given.
add_audio_to_recording_Always(chunk) == Append(recording_buffer, chunk)

\* main.py 265-268: add_audio_to_recording
add_audio_to_recording(chunk) ==
    IF agent_is_recording THEN Append(recording_buffer, chunk)
    ELSE recording_buffer

\* The stop calls that are in their padding sleep (main.py 153).
InPadding == {k \in Calls : calls[k].op = "stop" /\ calls[k].pc = "t153"}

\* A worker that tests the active flag again after the read and drops the
\* chunk it holds when the flag has been cleared.
ParecCallback_DropsWhenStopped(w) ==
    /\ workers[w].pc = "w324"
    /\ IF is_recording /\ audio_callback # "none"
       THEN /\ recording_buffer' = add_audio_to_recording(workers[w].chunk)
            /\ delivered' = delivered \cup {workers[w].chunk}
            /\ padded' = [k \in Calls |->
                            IF k \in InPadding /\ agent_is_recording
                            THEN padded[k] \cup {workers[w].chunk}
                            ELSE padded[k]]
       ELSE UNCHANGED <<recording_buffer, delivered, padded>>
    /\ workers' = [workers EXCEPT ![w] =
                     IF is_recording THEN [@ EXCEPT !.pc = "w327"]
                     ELSE LoopLeft("condition")]
    /\ UNCHANGED <<agent_is_recording, recording_start_time, capVars, bufVars,
                   procs, nread, calls, passes, driver, consumer, appended,
                   drained, session_of, web_events, selVars>>

\* audio_capture.py 322-324: the user callback, when one is set, is called
\* with the chunk, on the worker thread.
ParecCallback(w) ==
    /\ workers[w].pc = "w324"
    /\ IF audio_callback # "none"
       THEN /\ recording_buffer' = add_audio_to_recording(workers[w].chunk)
            /\ delivered' = delivered \cup {workers[w].chunk}
            /\ padded' = [k \in Calls |->
                            IF k \in InPadding /\ agent_is_recording
                            THEN padded[k] \cup {workers[w].chunk}
                            ELSE padded[k]]
       ELSE UNCHANGED <<recording_buffer, delivered, padded>>
    /\ workers' = [workers EXCEPT ![w].pc = "w327"]
    /\ UNCHANGED <<agent_is_recording, recording_start_time, capVars, bufVars,
                   procs, nread, calls, passes, driver, consumer, appended,
                   drained, session_of, web_events, selVars>>

\* The worker's append made without taking buffer_lock.
ParecAppend_NoLock(w) ==
    /\ workers[w].pc = "w327"
    /\ audio_buffer' = Append(audio_buffer, workers[w].chunk)
    /\ appended' = Append(appended, workers[w].chunk)
    /\ workers' = [workers EXCEPT ![w].pc = "w332"]
    /\ UNCHANGED <<agentVars, capVars, audio_queue, buffer_lock, procs, nread,
                   calls, passes, driver, consumer, drained, delivered, padded,
                   session_of,
                   web_events, selVars>>

\* audio_capture.py 326-328: append to the Sample Buffer under buffer_lock.
\* The lock is taken, the append made and the lock released in one step; the
\* step waits while another thread holds the lock.
ParecAppend(w) ==
    /\ workers[w].pc = "w327"
    /\ buffer_lock = "free"
    /\ audio_buffer' = Append(audio_buffer, workers[w].chunk)
    /\ appended' = Append(appended, workers[w].chunk)
    /\ workers' = [workers EXCEPT ![w].pc = "w332"]
    /\ UNCHANGED <<agentVars, capVars, audio_queue, buffer_lock, procs, nread,
                   calls, passes, driver, consumer, drained, delivered, padded,
                   session_of,
                   web_events, selVars>>

\* audio_capture.py 330-336: put_nowait on the Delivery Queue, which is
\* created without a maxsize (38) and so is never full; next iteration.
ParecQueuePut(w) ==
    /\ workers[w].pc = "w332"
    /\ audio_queue' = Append(audio_queue, workers[w].chunk)
    /\ workers' = [workers EXCEPT ![w] = [@ EXCEPT !.pc = "w305", !.chunk = 0]]
    /\ UNCHANGED <<agentVars, capVars, audio_buffer, buffer_lock, procs, nread,
                   calls, passes, driver, consumer, histVars,
                   web_events, selVars>>

\* The recorder process exits on its own: a mid-capture fault, or the exit
\* that follows a SIGTERM nobody waited for.
ProcDies(p) ==
    /\ ProcAlive(p)
    /\ procs' = [procs EXCEPT ![p] = "exited"]
    /\ UNCHANGED <<agentVars, capVars, bufVars, nread, calls, workers, passes,
                   driver, consumer, histVars, web_events, selVars>>

\* ------------------------------------------------ post-stop processing pass
\* The audio the recorder delivers.  A chunk is known by a number that
\* stands for its content: PcmPeak(c) is the largest absolute sample of
\* chunk c in int16 units, ChunkSamples(c) the number of its samples.
\* Chunk 1 is silence, chunk 101 peaks at 3 (3/32768 < 0.0001), chunk 102 at
\* 4 (4/32768 > 0.0001), every other chunk at half of full scale.
PcmPeak(c) ==
    CASE c = 1 -> 0
      [] c = 101 -> 3
      [] c = 102 -> 4
      [] OTHER -> 16384

\* audio_capture.py 311-317: read(buffer_size) returns buffer_size bytes, two
\* per sample, or fewer when the pipe holds fewer: chunk 103 is such a short
\* read, of half the size.
ChunkSamples(c) ==
    IF c = 103 THEN BufferSizeBytes \div 4 ELSE BufferSizeBytes \div 2

Max(S) == CHOOSE x \in S : \A y \in S : x >= y

\* main.py 187-189: np.concatenate joins the chunks in list order; the model
\* keeps the joined array as the sequence of its chunks.  len(combined_audio)
\* is the sum of the chunks' sample counts, max_amplitude the largest peak.
RECURSIVE SamplesOf(_)
SamplesOf(buf) ==
    IF buf = <<>> THEN 0 ELSE ChunkSamples(Head(buf)) + SamplesOf(Tail(buf))
MaxAmplitude(buf) == Max({PcmPeak(c) : c \in Range(buf)})

\* The duration gate with 0.3 s itself rejected.
TooShort_Inclusive(buf) == SamplesOf(buf) * 10 <= 3 * SampleRate
\* main.py 192: duration < 0.3, duration being samples / sample_rate
TooShort(buf) == SamplesOf(buf) * 10 < 3 * SampleRate
\* The amplitude gate that rejects all-zero audio only.
NoSignal_ZeroOnly(buf) == MaxAmplitude(buf) = 0
\* main.py 199: max_amplitude < 0.0001, amplitudes being peak / 32768
NoSignal(buf) == MaxAmplitude(buf) * 10000 < FullScale

\* A pass ends: st and msg are the status and the message of the last
\* status it hands to send_to_web; its locals go.
PassDone(p, st, msg) ==
    [passes EXCEPT ![p].pc = "done", ![p].status = st, ![p].message = msg,
                   ![p].combined = <<>>]

\* main.py 179-184: nothing recorded.
ProcessCheckEmpty(p) ==
    /\ passes[p].pc = "p179"
    /\ IF recording_buffer = <<>>
       THEN /\ passes' = PassDone(p, "ready", "no_audio")
            /\ web_events' = send_to_web("status", "ready")
       ELSE /\ passes' = [passes EXCEPT ![p].pc = "p187"]
            /\ web_events' = web_events
    /\ UNCHANGED <<agentVars, capVars, bufVars, procs, nread, calls, workers,
                   driver, consumer, histVars, selVars>>

\* Validation with the amplitude tested before the duration.
ProcessCombine_AmplitudeFirst(p) ==
    /\ passes[p].pc = "p187"
    /\ passes' =
         IF recording_buffer = <<>> THEN PassDone(p, "error", "exception")
         ELSE IF NoSignal(recording_buffer)
         THEN PassDone(p, "ready", "no_signal")
         ELSE IF TooShort(recording_buffer)
         THEN PassDone(p, "ready", "too_short")
         ELSE [passes EXCEPT ![p].pc = "p207", ![p].combined = recording_buffer]
    /\ web_events' = IF passes'[p].pc = "done"
                     THEN send_to_web("status", passes'[p].status)
                     ELSE web_events
    /\ UNCHANGED <<agentVars, capVars, bufVars, procs, nread, calls, workers,
                   driver, consumer, histVars, selVars>>

\* main.py 187-204: the buffer is read again and concatenated (an empty list
\* makes np.concatenate raise, caught at 258), then validated: the duration
\* first, the amplitude second.
ProcessCombine(p) ==
    /\ passes[p].pc = "p187"
    /\ passes' =
         IF recording_buffer = <<>> THEN PassDone(p, "error", "exception")
         ELSE IF TooShort(recording_buffer)
         THEN PassDone(p, "ready", "too_short")
         ELSE IF NoSignal(recording_buffer)
         THEN PassDone(p, "ready", "no_signal")
         ELSE [passes EXCEPT ![p].pc = "p207", ![p].combined = recording_buffer]
    /\ web_events' = IF passes'[p].pc = "done"
                     THEN send_to_web("status", passes'[p].status)
                     ELSE web_events
    /\ UNCHANGED <<agentVars, capVars, bufVars, procs, nread, calls, workers,
                   driver, consumer, histVars, selVars>>

\* main.py 207-263: transcriber.transcribe(combined_audio) runs.  With a text
\* of three characters or more the 'transcription' event is sent, the
\* language model runs and, when it answers, the 'response' event is sent
\* (345-364); the accumulation buffer is replaced by an empty one (250) and
\* the 'ready' status sent.  A result that is empty, too short or of an
\* unknown format sends 'ready' and returns without clearing the buffer; an
\* exception sends 'error' (258-263).
ProcessTranscribe(p) ==
    /\ passes[p].pc = "p207"
    /\ \/ /\ recording_buffer' = <<>>
          /\ passes' = PassDone(p, "ready", "completed")
          /\ \E answered \in BOOLEAN :
               web_events' =
                 LET sent == send_to_web("transcription", "text")
                 IN  IF answered THEN Append(sent, <<"response", "text">>)
                     ELSE sent
       \/ /\ passes' = PassDone(p, "ready", "transcription_failed")
          /\ recording_buffer' = recording_buffer
          /\ web_events' = send_to_web("status", "ready")
       \/ /\ passes' = PassDone(p, "error", "exception")
          /\ recording_buffer' = recording_buffer
          /\ web_events' = send_to_web("status", "error")
    /\ UNCHANGED <<agent_is_recording, recording_start_time, capVars, bufVars,
                   procs, nread, calls, workers, driver, consumer, histVars,
                   selVars>>

\* ------------------------------------------------- Backend A: the stream
\* audio_capture.py 154-158: a direct call of start_capture (with a device
\* index) arrives and tests the active flag.
start_capture(k) ==
    /\ Arrives(k)
    /\ calls' = IF is_recording THEN Returned(k, "a_start", "false")
                ELSE Entered(k, "a_start", "a169")
    /\ UNCHANGED <<agentVars, capVars, bufVars, procs, nread, workers, passes,
                   driver, consumer, histVars, web_events, selVars>>

\* audio_capture.py 169-177: the stream is opened, or open raises and the
\* except clause (185-187) returns False.
StreamOpen(k) ==
    /\ calls[k].pc = "a169"
    /\ \/ /\ stream' = "open"
          /\ calls' = Goto(k, "a179")
       \/ /\ calls' = Returned(k, "a_start", "false")
          /\ stream' = stream
    /\ UNCHANGED <<agentVars, is_recording, parec_process, parec_thread,
                   audio_callback, bufVars, procs, nread, workers, passes, driver,
                   consumer, histVars, web_events, selVars>>

\* audio_capture.py 179
StreamSetFlag(k) ==
    /\ calls[k].pc = "a179"
    /\ is_recording' = TRUE
    /\ calls' = Goto(k, "a180")
    /\ UNCHANGED <<agentVars, parec_process, parec_thread, audio_callback, stream,
                   bufVars, procs, nread, workers, passes, driver, consumer,
                   histVars, web_events, selVars>>

\* audio_capture.py 180-187: start_stream, then True; when start_stream
\* raises, the except clause returns False.
StreamStart(k) ==
    /\ calls[k].pc = "a180"
    /\ \/ /\ stream' = "started"
          /\ calls' = Returned(k, "a_start", "true")
       \/ /\ calls' = Returned(k, "a_start", "false")
          /\ stream' = stream
    /\ UNCHANGED <<agentVars, is_recording, parec_process, parec_thread,
                   audio_callback, bufVars, procs, nread, workers, passes, driver,
                   consumer, histVars, web_events, selVars>>

\* The status flags PortAudio passes to the callback: none, or an input
\* overflow.
DriverStatuses == {0, 1}

\* audio_capture.py 189-198: the driver calls _audio_callback with the next
\* frame of a started stream and its status flags; a status is logged
\* (191-192) and the frame is converted.
StreamFrame ==
    /\ driver.pc = "idle"
    /\ stream = "started"
    /\ nread < MaxChunks
    /\ nread' = nread + 1
    /\ \E st \in DriverStatuses :
         driver' = [pc |-> "a201", chunk |-> nread + 1, status |-> st,
                    directive |-> driver.directive]
    /\ session_of' = Captured(nread + 1)
    /\ UNCHANGED <<agentVars, capVars, bufVars, procs, calls, workers, passes,
                   consumer, appended, drained, delivered, padded, web_events,
                   selVars>>

\* audio_capture.py 200-202: append to the Sample Buffer under buffer_lock.
AudioCallbackAppend ==
    /\ driver.pc = "a201"
    /\ buffer_lock = "free"
    /\ audio_buffer' = Append(audio_buffer, driver.chunk)
    /\ appended' = Append(appended, driver.chunk)
    /\ driver' = [driver EXCEPT !.pc = "a206"]
    /\ UNCHANGED <<agentVars, capVars, audio_queue, buffer_lock, procs, nread,
                   calls, workers, passes, consumer, drained, delivered, padded,
                   session_of,
                   web_events, selVars>>

\* A callback that ends the stream after a frame with an input overflow.
CallbackReturn_CompleteOnOverflow(status, queued) ==
    IF status # 0 THEN "paComplete" ELSE "paContinue"

\* audio_capture.py 210: what _audio_callback returns to the driver, given
\* the status flags it was called with and the queue as it is.
CallbackReturn(status, queued) == "paContinue"

\* audio_capture.py 204-210: put_nowait on the queue, then the return; a
\* stream whose callback returns anything but paContinue is no longer
\* active.
AudioCallbackPut ==
    /\ driver.pc = "a206"
    /\ audio_queue' = Append(audio_queue, driver.chunk)
    /\ driver' = [NewDriver EXCEPT
                    !.directive = CallbackReturn(driver.status, audio_queue')]
    /\ stream' = IF driver'.directive = "paContinue" THEN stream ELSE "open"
    /\ UNCHANGED <<agentVars, is_recording, parec_process, parec_thread,
                   audio_callback, audio_buffer, buffer_lock, procs, nread,
                   calls, workers, passes, consumer, histVars,
                   web_events, selVars>>

\* audio_capture.py 233-236: a direct call of stop_capture arrives; it
\* returns at once when the flag is clear.
stop_capture(k) ==
    /\ Arrives(k)
    /\ calls' = IF ~is_recording THEN Returned(k, "a_stop", "returned")
                ELSE Entered(k, "a_stop", "k238")
    /\ UNCHANGED <<agentVars, capVars, bufVars, procs, nread, workers, passes,
                   driver, consumer, histVars, web_events, selVars>>

\* audio_capture.py 238
StopCaptureClearFlag(k) ==
    /\ calls[k].pc = "k238"
    /\ is_recording' = FALSE
    /\ calls' = Goto(k, "k240")
    /\ UNCHANGED <<agentVars, parec_process, parec_thread, audio_callback, stream,
                   bufVars, procs, nread, workers, passes, driver, consumer,
                   histVars, web_events, selVars>>

\* audio_capture.py 253-255, main.py 338-343: the agent's stop() calls
\* cleanup(), which calls stop_capture(); with the flag clear stop_capture
\* returns at once (235-236) and cleanup goes on to line 257.
cleanup(k) ==
    /\ Arrives(k)
    /\ calls' = IF ~is_recording THEN Entered(k, "cleanup", "n257")
                ELSE Entered(k, "cleanup", "k238")
    /\ UNCHANGED <<agentVars, capVars, bufVars, procs, nread, workers, passes,
                   driver, consumer, histVars, web_events, selVars>>

\* stop_capture has come to its end: a direct call returns, cleanup goes on.
StopCaptureDone(k) ==
    IF calls[k].op = "cleanup" THEN Goto(k, "n257")
    ELSE Returned(k, "a_stop", "returned")

\* audio_capture.py 257-258: pyaudio_instance.terminate() and return.  The
\* library stops a stream that is still running; the stream object stays in
\* self.stream.  Neither the recorder process nor its handle, nor the
\* worker thread, is touched.
CleanupTerminate(k) ==
    /\ calls[k].pc = "n257"
    /\ stream' = IF stream = "started" THEN "open" ELSE stream
    /\ calls' = Returned(k, "cleanup", "returned")
    /\ UNCHANGED <<agentVars, is_recording, parec_process, parec_thread,
                   audio_callback, bufVars, procs, nread, workers, passes,
                   driver, consumer, histVars, web_events, selVars>>

\* audio_capture.py 240-245: a stream, when there is one, is stopped (which
\* waits for a callback in progress), closed and forgotten.  stop_stream
\* and close are PortAudio calls that can raise; nothing catches the
\* exception, which leaves stop_capture before line 243 (and cleanup before
\* line 257).
StopCaptureClose(k) ==
    /\ calls[k].pc = "k240"
    /\ stream # "none" => driver.pc = "idle"
    /\ \/ /\ stream' = "none"
          /\ calls' = StopCaptureDone(k)
       \/ /\ stream # "none"
          /\ stream' = stream
          /\ calls' = Returned(k, calls[k].op, "raised")
    /\ UNCHANGED <<agentVars, is_recording, parec_process, parec_thread,
                   audio_callback, bufVars, procs, nread, workers, passes, driver,
                   consumer, histVars, web_events, selVars>>

\* ------------------------------------------- Sample Buffer: the consumer
\* audio_capture.py 219-221: get_buffered_audio(clear_buffer) takes the lock.
GetBufferedAcquire(clear_buffer) ==
    /\ consumer.pc = "idle"
    /\ buffer_lock = "free"
    /\ buffer_lock' = "consumer"
    /\ consumer' = [pc |-> "g222", clear |-> clear_buffer, data |-> <<>>]
    /\ UNCHANGED <<agentVars, capVars, audio_buffer, audio_queue, procs, nread,
                   calls, workers, passes, driver, histVars,
                   web_events, selVars>>

\* audio_capture.py 222-226: an empty buffer returns an empty array (and the
\* lock is released); else the chunks are concatenated.
GetBufferedConcat ==
    /\ consumer.pc = "g222"
    /\ IF audio_buffer = <<>>
       THEN /\ consumer' = [pc |-> "idle", clear |-> FALSE, data |-> <<>>]
            /\ buffer_lock' = "free"
       ELSE /\ consumer' = [consumer EXCEPT !.pc = "g228", !.data = audio_buffer]
            /\ buffer_lock' = buffer_lock
    /\ UNCHANGED <<agentVars, capVars, audio_buffer, audio_queue, procs, nread,
                   calls, workers, passes, driver, histVars,
                   web_events, selVars>>

\* audio_capture.py 228-231: the buffer is cleared when asked, the array
\* returned and the lock released.
GetBufferedClear ==
    /\ consumer.pc = "g228"
    /\ IF consumer.clear
       THEN /\ audio_buffer' = <<>>
            /\ drained' = drained \o consumer.data
       ELSE UNCHANGED <<audio_buffer, drained>>
    /\ buffer_lock' = "free"
    /\ consumer' = [pc |-> "idle", clear |-> FALSE, data |-> <<>>]
    /\ UNCHANGED <<agentVars, capVars, audio_queue, procs, nread, calls, workers,
                   passes, driver, appended, delivered, padded, session_of,
                   web_events, selVars>>

\* ------------------------------------------------------- specifications
\* The steps of a call of the controller that is in progress.
ControllerStep(k) ==
    \/ StartArm(k)
    \/ StartFailed(k)
    \/ StopSetIdle(k)
    \/ StopSpawn(k)

\* The steps of a call inside Backend B.
BackendBStep(k) ==
    \/ ParecCheck(k)
    \/ ParecPopen(k)
    \/ ParecSetFlag(k)
    \/ ParecThreadStart(k)
    \/ StopMonitorClearFlag(k)
    \/ StopMonitorTerminate(k)
    \/ StopMonitorWait(k)
    \/ StopMonitorKill(k)
    \/ StopMonitorRelease(k)
    \/ StopMonitorJoinCheck(k)
    \/ StopMonitorJoin(k)

\* The steps of a call inside Backend A.
BackendAStep(k) ==
    \/ StreamOpen(k)
    \/ StreamSetFlag(k)
    \/ StreamStart(k)
    \/ StopCaptureClearFlag(k)
    \/ StopCaptureClose(k)

WorkerStep(w) ==
    \/ ParecLoopCheck(w)
    \/ ParecRead(w)
    \/ ParecCallback(w)
    \/ ParecAppend(w)
    \/ ParecQueuePut(w)

PassStep(p) ==
    \/ ProcessCheckEmpty(p)
    \/ ProcessCombine(p)
    \/ ProcessTranscribe(p)

\* The application; every control signal has a request thread of its own.
Next ==
    \/ \E k \in 1..MaxCalls :
         start_controlled_recording(k) \/ stop_recording_speakers(k)
    \/ \E k \in Calls : ControllerStep(k) \/ BackendBStep(k)
    \/ \E w \in ProcIds : WorkerStep(w)
    \/ \E p \in ProcIds : ProcDies(p)
    \/ \E p \in PassIds : PassStep(p)

Spec == Init /\ [][Next]_vars

\* The application when a control signal arrives only after the previous
\* call has returned.
NextSeq ==
    \/ \E k \in 1..SeqCalls :
         Quiet /\ (start_controlled_recording(k) \/ stop_recording_speakers(k))
    \/ \E k \in Calls : ControllerStep(k) \/ BackendBStep(k)
    \/ \E w \in ProcIds : WorkerStep(w)
    \/ \E p \in ProcIds : ProcDies(p)
    \/ \E p \in PassIds : PassStep(p)

SpecSeq == Init /\ [][NextSeq]_vars

\* The application when a start signal arrives only after the previous calls
\* have returned, while a stop signal may arrive at any time: each request
\* has a thread of its own (web_server.py 133-147), so a second stop can be
\* handled while the first is in its padding sleep or inside the backend.
NextStops ==
    \/ \E k \in 1..SeqCalls :
         \/ Quiet /\ start_controlled_recording(k)
         \/ stop_recording_speakers(k)
    \/ \E k \in Calls : ControllerStep(k) \/ BackendBStep(k)
    \/ \E w \in ProcIds : WorkerStep(w)
    \/ \E p \in ProcIds : ProcDies(p)
    \/ \E p \in PassIds : PassStep(p)

SpecStops == Init /\ [][NextStops]_vars

\* The application with request threads that keep running: a thread handling
\* a control signal is scheduled again and again, its sleeps (main.py 153,
\* audio_capture.py 356) end, and wait(timeout=2) and join(timeout=1) come
\* back at the latest when their time is over (362, 373).  Nothing is
\* assumed of the recorder processes, the capture workers or the processing
\* passes.
SpecLive ==
    /\ Init /\ [][Next]_vars
    /\ \A k \in Calls : WF_vars(ControllerStep(k) \/ BackendBStep(k))

\* The capture object driven by one client thread, the driver thread and a
\* consumer of the Sample Buffer.
NextCapture ==
    \/ \E k \in 1..SeqCalls :
         Quiet /\ (\/ start_monitor_capture_parec(k)
                   \/ stop_monitor_capture(k)
                   \/ start_capture(k)
                   \/ stop_capture(k))
    \/ \E k \in Calls : BackendBStep(k) \/ BackendAStep(k)
    \/ \E w \in ProcIds : WorkerStep(w)
    \/ \E p \in ProcIds : ProcDies(p)
    \/ StreamFrame \/ AudioCallbackAppend \/ AudioCallbackPut
    \/ \E c \in BOOLEAN : GetBufferedAcquire(c)
    \/ GetBufferedConcat \/ GetBufferedClear

SpecCapture == Init /\ [][NextCapture]_vars

\* The capture object driven by one client thread that may also shut the
\* agent down (main.py 336, 338-343).
NextShutdown ==
    \/ NextCapture
    \/ \E k \in 1..SeqCalls : Quiet /\ cleanup(k)
    \/ \E k \in Calls : CleanupTerminate(k)

SpecShutdown == Init /\ [][NextShutdown]_vars

\* The post-stop processing pass, over every recording of up to MaxRecorded
\* chunks: silence, a peak just below and just above the amplitude gate, a
\* loud chunk, and a short read.
ValidationChunks == {1, 2, 101, 102, 103}
Recordings == UNION {[1..n -> ValidationChunks] : n \in 0..MaxRecorded}

\* A session was started by call 1 and stopped by call 2, which has started
\* the processing thread (main.py 167-169) and returned; the recorder has
\* exited and its worker has finished; the thread is about to run
\* _process_recorded_audio on what the session left in recording_buffer.
InitValidate ==
    /\ recording_buffer \in Recordings
    /\ agent_is_recording = FALSE
    /\ recording_start_time = 1
    /\ is_recording = FALSE
    /\ parec_process = None
    /\ parec_thread = 1
    /\ audio_callback = "add_audio_to_recording"
    /\ stream = "none"
    /\ audio_buffer = recording_buffer
    /\ audio_queue = recording_buffer
    /\ buffer_lock = "free"
    /\ procs = [p \in ProcIds |-> IF p = 1 THEN "exited" ELSE "unborn"]
    /\ nread = Len(recording_buffer)
    /\ calls = [k \in Calls |->
                 IF k = 1 THEN [NewCall EXCEPT !.pc = "done", !.op = "start",
                                               !.result = "true",
                                               !.response = Response("true")]
                 ELSE IF k = 2
                 THEN [NewCall EXCEPT !.pc = "done", !.op = "stop",
                                      !.result = "true",
                                      !.response = Response("true")]
                 ELSE NewCall]
    /\ workers = [w \in ProcIds |->
                   IF w = 1 THEN LoopLeft("condition") ELSE NewWorker]
    /\ passes = [p \in PassIds |->
                  IF p = 1 THEN [NewPass EXCEPT !.pc = "p179", !.by = 2]
                  ELSE NewPass]
    /\ driver = NewDriver
    /\ consumer = [pc |-> "idle", clear |-> FALSE, data |-> <<>>]
    /\ appended = recording_buffer
    /\ drained = <<>>
    /\ delivered = Range(recording_buffer)
    /\ padded = [k \in Calls |-> {}]
    /\ session_of = [chunk |-> [c \in ChunkIds |-> 0],
                     stop |-> [k \in Calls |-> 0]]
    /\ web_events = <<>>
    /\ inventory = <<>>
    /\ unreadable = {}
    /\ found = NoSelection

NextValidate == \E p \in PassIds : PassStep(p)

SpecValidate == InitValidate /\ [][NextValidate]_vars

\* ------------------------------------------------------ device selection
\* A device as PyAudio describes it: name is the set of the keywords that the
\* lower-cased device name contains ("monitor" \in d.name stands for
\* '"monitor" in device.name.lower()'), channels is maxInputChannels.  The
\* name {"default"} is the name "default" itself, {"sys", "default"} is
\* "sysdefault", a longer name that contains it.
Keywords == {"monitor", "analog", "pipewire", "default", "alc892", "usb",
             "webcam", "genius", "input", "sys"}
DeviceKinds ==
    { [name |-> {"monitor", "analog"}, channels |-> 2],
      [name |-> {"monitor", "analog"}, channels |-> 0],
      [name |-> {"pipewire"}, channels |-> 2],
      [name |-> {"usb", "webcam"}, channels |-> 1],
      [name |-> {"default"}, channels |-> 2],
      [name |-> {"default"}, channels |-> 0],
      [name |-> {"sys", "default"}, channels |-> 2],
      [name |-> {"analog", "alc892"}, channels |-> 2],
      [name |-> {"analog", "input"}, channels |-> 2],
      [name |-> {"monitor"}, channels |-> 2],
      [name |-> {}, channels |-> 1] }

\* The inventories of up to MaxDevices different devices, in every order.
Inventories ==
    { inv \in UNION {[1..n -> DeviceKinds] : n \in 0..MaxDevices} :
        \A i, j \in 1..Len(inv) : inv[i] = inv[j] => i = j }

\* audio_capture.py 56-62: the AudioDevice made of the info of the device at
\* position i of the host's list (PyAudio index i - 1).
AudioDevice(i) ==
    [index |-> i - 1, name |-> inventory[i].name,
     channels |-> inventory[i].channels]

\* An enumeration that gives up at the first device whose query raises.
RECURSIVE ListFrom_UntilFailure(_)
ListFrom_UntilFailure(i) ==
    IF i > Len(inventory) \/ i \in unreadable THEN <<>>
    ELSE <<AudioDevice(i)>> \o ListFrom_UntilFailure(i + 1)

\* audio_capture.py 53-65: the loop over the indices from position i on; a
\* device whose query raises is logged and skipped.
RECURSIVE ListFrom(_)
ListFrom(i) ==
    IF i > Len(inventory) THEN <<>>
    ELSE (IF i \in unreadable THEN <<>> ELSE <<AudioDevice(i)>>)
         \o ListFrom(i + 1)

\* audio_capture.py 49-67: list_audio_devices
list_audio_devices == ListFrom(1)

\* The host position of the device a policy returns (position j of the
\* list it was given), None when it returns None.
Returned_device(devices, j) == IF j = None THEN None ELSE devices[j].index + 1

\* audio_capture.py 61: is_input
is_input(d) == d.channels > 0

\* 'for device in devices: if <test>: return device': the first of the
\* devices that pass the test, None when there is none.
FirstDevice(hits) == IF hits = {} THEN None ELSE Least(hits)

\* One loop over the list that returns the first device passing any of the
\* four tests.
find_monitor_device_SinglePass(devices) ==
    FirstDevice({i \in 1..Len(devices) :
        /\ is_input(devices[i])
        /\ \/ "monitor" \in devices[i].name /\ "analog" \in devices[i].name
           \/ "pipewire" \in devices[i].name
           \/ "default" \in devices[i].name
           \/ "analog" \in devices[i].name
           \/ "alc892" \in devices[i].name})

\* audio_capture.py 110-152: find_monitor_device.  Four loops over the whole
\* list, one per strategy; the first loop that finds a device returns it.
find_monitor_device(devices) ==
    LET all == 1..Len(devices)
        s1 == FirstDevice({i \in all : /\ is_input(devices[i])
                                       /\ "monitor" \in devices[i].name
                                       /\ "analog" \in devices[i].name})
        s2 == FirstDevice({i \in all : /\ is_input(devices[i])
                                       /\ "pipewire" \in devices[i].name})
        s3 == FirstDevice({i \in all : /\ is_input(devices[i])
                                       /\ "default" \in devices[i].name})
        s4 == FirstDevice({i \in all : /\ is_input(devices[i])
                                       /\ \/ "analog" \in devices[i].name
                                          \/ "alc892" \in devices[i].name
                                       /\ devices[i].channels >= 1})
    IN  IF s1 # None THEN s1
        ELSE IF s2 # None THEN s2
        ELSE IF s3 # None THEN s3
        ELSE s4

\* The microphone policy with a filter that lets monitors through.
find_microphone_device_KeepsMonitors(devices) ==
    LET microphones == {i \in 1..Len(devices) : is_input(devices[i])}
        usb == FirstDevice({i \in microphones :
                  {"usb", "webcam", "genius"} \cap devices[i].name # {}})
        internal == FirstDevice({i \in microphones :
                  "analog" \in devices[i].name /\ "input" \in devices[i].name})
    IN  IF microphones = {} THEN None
        ELSE IF usb # None THEN usb
        ELSE IF internal # None THEN internal
        ELSE Least(microphones)

\* audio_capture.py 69-104: find_microphone_device.  The list is filtered
\* (74-79); None when nothing is left (81-87); else the first USB / webcam
\* device (90-93), else the first internal analog input (96-99), else the
\* first of the filtered list (102-104).
find_microphone_device(devices) ==
    LET microphones == {i \in 1..Len(devices) :
                          /\ is_input(devices[i])
                          /\ "monitor" \notin devices[i].name
                          /\ devices[i].channels > 0}
        usb == FirstDevice({i \in microphones :
                  {"usb", "webcam", "genius"} \cap devices[i].name # {}})
        internal == FirstDevice({i \in microphones :
                  "analog" \in devices[i].name /\ "input" \in devices[i].name})
    IN  IF microphones = {} THEN None
        ELSE IF usb # None THEN usb
        ELSE IF internal # None THEN internal
        ELSE Least(microphones)

\* A caller selects the monitor device / the microphone.
SelectMonitor ==
    /\ found' = [policy |-> "monitor",
                 devices |-> list_audio_devices,
                 device |-> Returned_device(list_audio_devices,
                               find_monitor_device(list_audio_devices))]
    /\ UNCHANGED <<agentVars, capVars, bufVars, procs, nread, calls, workers,
                   passes, driver, consumer, histVars, web_events, inventory,
                   unreadable>>

SelectMicrophone ==
    /\ found' = [policy |-> "microphone",
                 devices |-> list_audio_devices,
                 device |-> Returned_device(list_audio_devices,
                               find_microphone_device(list_audio_devices))]
    /\ UNCHANGED <<agentVars, capVars, bufVars, procs, nread, calls, workers,
                   passes, driver, consumer, histVars, web_events, inventory,
                   unreadable>>

\* Any inventory, and any of its devices failing the metadata query.
InitSelect ==
    /\ InitProgram
    /\ inventory \in Inventories
    /\ unreadable \in SUBSET (1..Len(inventory))

NextSelect == SelectMonitor \/ SelectMicrophone

SpecSelect == InitSelect /\ [][NextSelect]_vars

\* The application on a host whose audio layer exposes no device or one
\* device; the web server takes control signals from the moment the
\* handler is registered (main.py 379), whatever initialize() finds later
\* (305-308).
InitArm ==
    /\ InitProgram
    /\ inventory \in {inv \in Inventories : Len(inv) <= 1}
    /\ unreadable = {}

SpecArm == InitArm /\ [][NextSeq]_vars

\* ------------------------------------------------------------------ C1
\* C1: whatever the interleaving of appends (the Backend A callback, the
\* Backend B worker) and of get_buffered_audio calls, what has been drained
\* so far followed by what the buffer holds is the sequence of appended
\* chunks, in append order, and no chunk was appended twice.
C1_DrainedThenBufferIsAppended ==
    /\ drained \o audio_buffer = appended
    /\ \A i, j \in 1..Len(appended) : appended[i] = appended[j] => i = j

\* A drain took chunks away and an append has followed it.
C1_Witness == drained # <<>> /\ audio_buffer # <<>>

\* ------------------------------------------------------------------ C2
\* The step in which call k arrives as a start / as a stop of the controller.
ArrivesAs(k, op) == calls[k].pc = "new" /\ calls'[k].op = op

\* C2: a controller start that follows a start that returned True, with no
\* stop in between, returns True itself and leaves the controller, the
\* capture object, the recorder processes and every thread as they were: no
\* second process or worker, no reset of the buffer or of the start time.
C2_StartTwiceInARow ==
    [][\A k \in Calls :
         (/\ ArrivesAs(k, "start")
          /\ k > 1
          /\ calls[k - 1].op = "start"
          /\ calls[k - 1].result = "true")
         => (/\ calls'[k].pc = "done"
             /\ calls'[k].result = "true"
             /\ UNCHANGED <<agentVars, capVars, bufVars, procs, workers,
                            passes>>)]_vars

\* Two starts in a row have both returned True and one recorder was started.
C2_Witness ==
    /\ calls[1].op = "start" /\ calls[1].result = "true"
    /\ calls[2].op = "start" /\ calls[2].result = "true"
    /\ procs[1] # "unborn" /\ procs[2] = "unborn"
    /\ recording_start_time = 1

\* ------------------------------------------------------------------ C3
\* C3: a controller stop that arrives while the controller is Idle returns
\* True in that step and changes nothing: no padding sleep, no backend call,
\* no processing thread.
C3_StopWhileIdle ==
    [][\A k \in Calls :
         (ArrivesAs(k, "stop") /\ ~agent_is_recording)
         => (/\ calls'[k].pc = "done"
             /\ calls'[k].result = "true"
             /\ UNCHANGED <<agentVars, capVars, bufVars, procs, workers,
                            passes>>)]_vars

\* A stop that found the controller Idle has returned True; the controller
\* is Idle and no processing thread was ever started.
C3_Witness ==
    \E k \in Calls :
      /\ calls[k].op = "stop" /\ calls[k].result = "true"
      /\ ~agent_is_recording
      /\ \A p \in PassIds : passes[p].pc = "unborn"

\* ------------------------------------------------------------------ C4
\* C4: at most one recorder process is alive, and a recorder that is alive is
\* the one the capture object holds the handle of.
C4_OneBackend ==
    /\ Cardinality({p \in ProcIds : ProcAlive(p)}) <= 1
    /\ \A p \in ProcIds : ProcAlive(p) => parec_process = p

\* ------------------------------------------------------------------ C5
\* C5: when a controller stop that began in Recording returns, by whatever
\* path, the controller is Idle.
C5_StopReachesIdle ==
    [][\A k \in Calls :
         (/\ calls[k].op = "stop"
          /\ calls[k].pc \notin {"new", "done"}
          /\ calls'[k].pc = "done")
         => ~agent_is_recording']_vars

\* ------------------------------------------------------------------ C6
\* C6: when a controller start returns False, the controller is Idle (so the
\* next start passes the test at main.py 117 and arms the backend again).
C6_FailedStartIsIdle ==
    [][\A k \in Calls :
         (/\ calls[k].op = "start"
          /\ calls[k].pc # "done"
          /\ calls'[k].pc = "done"
          /\ calls'[k].result = "false")
         => ~agent_is_recording']_vars

\* A start has failed and the controller is Idle.
C6_Witness ==
    \E k \in Calls :
      /\ calls[k].op = "start" /\ calls[k].result = "false"
      /\ ~agent_is_recording

\* ------------------------------------------------------------------ C7
\* The step in which a backend start that passed its active-flag test gives
\* up and returns False.
BackendStartFails(k) ==
    /\ calls[k].pc \in {"b276", "b288", "a169", "a180"}
    /\ \/ calls'[k].pc = "s137"
       \/ calls'[k].pc = "done" /\ calls'[k].result = "false"

\* C7: when a backend start returns False because one of its steps failed,
\* the active flag is clear and no stream or recorder process is open.
C7_FailedStartReleases ==
    [][\A k \in Calls :
         BackendStartFails(k)
         => (/\ ~is_recording'
             /\ stream' = "none"
             /\ \A p \in ProcIds : procs'[p] \notin {"running", "terminating"})]_vars

\* ------------------------------------------------------------------ C8
\* The step in which stop_monitor_capture returns.
StopMonitorReturns(k) ==
    /\ calls[k].pc \in {"c372", "c373"}
    /\ calls'[k].pc \in {"t158", "done"}

\* The worker the capture object names is running, after the step.
WorkerRunningAfter ==
    /\ parec_thread' # None
    /\ workers'[parec_thread'].pc \notin {"unborn", "unstarted", "done"}

\* The recorder the call waited for or killed has exited, after the step.
TargetExited(k) == calls[k].target # 0 => procs'[calls[k].target] = "exited"

\* C8 as stated: when stop_monitor_capture returns, the recorder has exited
\* and the worker thread is not running.
C8_StopLeavesNothingRunning ==
    [][\A k \in Calls :
         StopMonitorReturns(k) => TargetExited(k) /\ ~WorkerRunningAfter]_vars

\* C8 amended: when stop_monitor_capture returns, the recorder has exited,
\* and the worker thread is not running unless the join was made and its
\* one-second wait ran out.
C8_StopLeavesNothingRunningUnlessJoinTimedOut ==
    [][\A k \in Calls :
         StopMonitorReturns(k)
         => (/\ TargetExited(k)
             /\ WorkerRunningAfter => calls[k].pc = "c373")]_vars

\* stop_monitor_capture has returned to the controller after a wait on the
\* recorder and a join that timed out: the worker is still running.
C8_Witness ==
    \E k \in Calls :
      /\ calls[k].pc = "t158"
      /\ calls[k].target # 0 /\ procs[calls[k].target] = "exited"
      /\ "join_timeout" \in Range(calls[k].log)
      /\ parec_thread # None /\ WorkerAlive(parec_thread)

\* ------------------------------------------------------------------ C9
\* The step in which pass p takes the audio it was started for: it finds the
\* buffer empty (main.py 179) or concatenates it (187).
PassTakesAudio(p) ==
    /\ passes[p].pc \in {"p179", "p187"}
    /\ passes'[p].pc \in {"p207", "done"}

\* C9: every chunk the producer delivered during the padding sleep of a stop
\* is in the audio that the pass started by that stop takes.
C9_PaddingChunksHandedOver ==
    [][\A p \in PassIds :
         PassTakesAudio(p)
         => padded[passes[p].by] \subseteq Range(recording_buffer)]_vars

\* ----------------------------------------------------------------- C10
\* A chunk that was read is held by a worker that has not yet called the
\* callback / not yet appended it.
HeldBeforeCallback(c) ==
    \E w \in ProcIds : workers[w].chunk = c /\ workers[w].pc = "w324"
HeldBeforeAppend(c) ==
    \E w \in ProcIds : workers[w].chunk = c /\ workers[w].pc \in {"w324", "w327"}

\* C10: a backend stop terminates or kills the recorder only after it has
\* cleared the active flag, and every chunk read from a recorder is passed
\* to the callback and appended to the Sample Buffer, or is in the hands of
\* the worker that is about to do so, whether the flag was cleared meanwhile
\* or not.
C10_FlagFirstAndNoChunkLost ==
    /\ \A k \in Calls : \A i \in 1..Len(calls[k].log) :
         calls[k].log[i] \in {"terminate", "kill"}
         => \E j \in 1..(i - 1) : calls[k].log[j] = "clear_flag"
    /\ \A c \in 1..nread :
         /\ c \in delivered \/ HeldBeforeCallback(c)
         /\ c \in Range(appended) \/ HeldBeforeAppend(c)

\* A stop has cleared the flag and sent SIGTERM while a worker holds a chunk
\* it has read and not yet passed on.
C10_Witness ==
    \E k \in Calls : \E w \in ProcIds :
      /\ "terminate" \in Range(calls[k].log)
      /\ ~is_recording
      /\ workers[w].pc = "w324"

\* ----------------------------------------------------------------- C11
\* The duration of a recording, in whole milliseconds: samples / sample rate.
DurationMs(buf) == (1000 * SamplesOf(buf)) \div SampleRate

\* Every sample of the recording is below 0.0001 in absolute value: as int16,
\* at most 3 (3/32768 = 0.0000916, 4/32768 = 0.000122).
PeakBelowGate(buf) == \A c \in Range(buf) : PcmPeak(c) <= 3

\* The pass that takes its audio in this step ends in it, without calling the
\* transcriber, with the status 'ready' and the message msg.
RejectedAs(p, msg) ==
    /\ passes'[p].pc = "done"
    /\ passes'[p].status = "ready"
    /\ passes'[p].message = msg

\* C11 as stated: a pass that takes a recording shorter than 0.3 s rejects
\* it as too short, whatever its amplitude, and does not call the transcriber.
C11_ShortRejectedAsTooShort ==
    [][\A p \in PassIds :
         (PassTakesAudio(p) /\ DurationMs(recording_buffer) < 300)
         => RejectedAs(p, "too_short")]_vars

\* C11 amended: a pass that takes a recording shorter than 0.3 s does not
\* call the transcriber; it rejects the recording as too short, whatever its
\* amplitude, when it holds at least one chunk, and as 'no audio to process'
\* when it holds none.
C11_ShortRejectedEmptyAsNoAudio ==
    [][\A p \in PassIds :
         (PassTakesAudio(p) /\ DurationMs(recording_buffer) < 300)
         => IF recording_buffer = <<>> THEN RejectedAs(p, "no_audio")
            ELSE RejectedAs(p, "too_short")]_vars

\* A loud recording of less than 0.3 s has been rejected as too short.
C11_Witness ==
    \E p \in PassIds :
      /\ passes[p].pc = "done" /\ passes[p].message = "too_short"
      /\ recording_buffer # <<>>
      /\ DurationMs(recording_buffer) < 300
      /\ ~PeakBelowGate(recording_buffer)

\* ----------------------------------------------------------------- C12
\* C12: a pass that takes a recording of at least 0.3 s whose samples are all
\* below 0.0001 rejects it as 'no signal' and does not call the transcriber.
C12_SilentRejectedAsNoSignal ==
    [][\A p \in PassIds :
         (/\ PassTakesAudio(p)
          /\ DurationMs(recording_buffer) >= 300
          /\ PeakBelowGate(recording_buffer))
         => RejectedAs(p, "no_signal")]_vars

\* A recording of at least 0.3 s that is not all zero, with its peak just
\* below the gate, has been rejected as 'no signal'.
C12_Witness ==
    \E p \in PassIds :
      /\ passes[p].pc = "done" /\ passes[p].message = "no_signal"
      /\ DurationMs(recording_buffer) >= 300
      /\ 101 \in Range(recording_buffer)

\* ----------------------------------------------------------------- C13
\* C13: a pass that takes a recording of at least 0.3 s with a sample of
\* 0.0001 or more goes on to the transcriber, and the array it hands over is
\* the whole accumulation buffer: every chunk, in the order of the buffer,
\* its length the sum of the lengths of the chunks.
C13_ValidForwardedWhole ==
    [][\A p \in PassIds :
         (/\ PassTakesAudio(p)
          /\ DurationMs(recording_buffer) >= 300
          /\ ~PeakBelowGate(recording_buffer))
         => (/\ passes'[p].pc = "p207"
             /\ Len(passes'[p].combined) = Len(recording_buffer)
             /\ \A i \in 1..Len(recording_buffer) :
                  passes'[p].combined[i] = recording_buffer[i]
             /\ SamplesOf(passes'[p].combined) = SamplesOf(recording_buffer))]_vars

\* A recording of exactly 0.3 s, its peak just above the gate, is with the
\* transcriber.
C13_Witness ==
    \E p \in PassIds :
      /\ passes[p].pc = "p207"
      /\ passes[p].combined = recording_buffer
      /\ SamplesOf(recording_buffer) * 10 = 3 * SampleRate
      /\ 102 \in Range(recording_buffer)
      /\ ~(2 \in Range(recording_buffer))

\* ----------------------------------------------------------------- C14
\* The positions of the devices that the enumeration lists.
Enumerated == (1..Len(inventory)) \ unreadable

\* The devices of the inventory that match rule 1..4 of the monitor policy
\* by their name (rule 4: by name and channel count), as the rules are
\* stated.
NamedByRule(r) ==
    {i \in Enumerated :
       LET d == inventory[i]
       IN  CASE r = 1 -> "monitor" \in d.name /\ "analog" \in d.name
             [] r = 2 -> "pipewire" \in d.name
             [] r = 3 -> "default" \in d.name
             [] OTHER -> /\ "analog" \in d.name \/ "alc892" \in d.name
                         /\ d.channels >= 1}

\* The same, among the devices that have input channels.
InputByRule(r) == {i \in NamedByRule(r) : inventory[i].channels > 0}

\* The device found is one of the first rule that any device matches;
\* none is found when no device matches a rule.
FirstRuleWins(m1, m2, m3, m4) ==
    IF m1 # {} THEN found.device \in m1
    ELSE IF m2 # {} THEN found.device \in m2
    ELSE IF m3 # {} THEN found.device \in m3
    ELSE IF m4 # {} THEN found.device \in m4
    ELSE found.device = None

\* C14 as stated: for every inventory, in every order, the monitor policy
\* returns a device whose name matches rule 1 if there is one, else rule 2,
\* else rule 3, else rule 4.
C14_FirstNamedRuleWins ==
    found.policy = "monitor" => FirstRuleWins(NamedByRule(1), NamedByRule(2), NamedByRule(3),
                      NamedByRule(4))

\* C14 amended: the same, the rules being applied to the devices that have
\* at least one input channel.
C14_FirstRuleWinsAmongInputs ==
    found.policy = "monitor" => FirstRuleWins(InputByRule(1), InputByRule(2), InputByRule(3),
                      InputByRule(4))

\* The analog monitor, last of three after the PipeWire device and the USB
\* webcam microphone, is the device found by the monitor policy.
C14_Witness ==
    /\ found.policy = "monitor"
    /\ Len(inventory) = 3
    /\ "pipewire" \in inventory[1].name
    /\ "usb" \in inventory[2].name
    /\ inventory[3] = [name |-> {"monitor", "analog"}, channels |-> 2]
    /\ found.device = 3

\* ----------------------------------------------------------------- C15
\* The candidates of the microphone policy, and those with a USB / webcam
\* vendor keyword or the name of an internal analog input.
Candidates ==
    {i \in Enumerated :
       "monitor" \notin inventory[i].name /\ inventory[i].channels # 0}
VendorCandidates ==
    {i \in Candidates :
       \E t \in {"usb", "webcam", "genius"} : t \in inventory[i].name}
InternalCandidates ==
    {i \in Candidates : {"analog", "input"} \subseteq inventory[i].name}

\* C15: the microphone policy returns no device exactly when there is no
\* candidate (no device without "monitor" in its name and with an input
\* channel); else it returns a candidate: the first with a vendor keyword,
\* else the first internal analog input, else the first candidate.
C15_MicrophonePolicy ==
    found.policy = "microphone" =>
      /\ found.device = None <=> Candidates = {}
      /\ found.device # None =>
           /\ found.device \in Candidates
           /\ found.device =
                IF VendorCandidates # {} THEN Least(VendorCandidates)
                ELSE IF InternalCandidates # {} THEN Least(InternalCandidates)
                ELSE Least(Candidates)

\* The USB webcam microphone, listed after a monitor and an internal analog
\* input, is the device found by the microphone policy.
C15_Witness ==
    /\ found.policy = "microphone"
    /\ Len(inventory) = 3
    /\ "monitor" \in inventory[1].name
    /\ {"analog", "input"} \subseteq inventory[2].name
    /\ "usb" \in inventory[3].name
    /\ found.device = 3

\* ----------------------------------------------------------------- C16
\* C16 as stated, for a Delivery Queue of capacity N = MaxChunks - 1 and
\* the MaxChunks frames a backend pushes with no consumer: the queue never
\* holds more than N frames (the push that finds it full is dropped).
C16_QueueWithinCapacity ==
    Len(audio_queue) <= MaxChunks - 1

\* ----------------------------------------------------------------- C17
\* C17 as stated: a start or stop signal whose handler returned false is
\* answered with an error response, and a success response is given only
\* when the handler returned true.
C17_ResponseFollowsResult ==
    \A k \in Calls :
      (calls[k].pc = "done" /\ calls[k].op \in {"start", "stop"}) =>
        /\ calls[k].result = "false" => calls[k].response = "error"
        /\ calls[k].response = "success" => calls[k].result = "true"

\* ----------------------------------------------------------------- C18
\* The status events the observers have received so far, in order.
StatusesObserved ==
    SelectSeq(web_events, LAMBDA e : e[1] = "status")
HasStatus(st) == \E i \in 1..Len(StatusesObserved) : StatusesObserved[i][2] = st

\* C18 as stated, for control signals handled one after the other: once a
\* start has succeeded the observers have received 'recording'; once a stop
\* has stopped the backend and returned they have received 'processing'
\* after it; once the pass has ended they have received a terminal status.
C18_StatusEventsObserved ==
    /\ (\E k \in Calls : /\ calls[k].pc = "done" /\ calls[k].op = "start"
                         /\ calls[k].result = "true")
         => HasStatus("recording")
    /\ (\E p \in PassIds : passes[p].pc \notin {"unborn"})
         => \E i, j \in 1..Len(StatusesObserved) :
              /\ i < j
              /\ StatusesObserved[i][2] = "recording"
              /\ StatusesObserved[j][2] = "processing"
    /\ (\E p \in PassIds : passes[p].pc = "done")
         => HasStatus("ready") \/ HasStatus("error")

\* ----------------------------------------------------------------- C19
\* C19 as stated: the step that ends a processing pass, whatever its
\* outcome, leaves the accumulation buffer empty and the controller Idle,
\* and while a pass is running the controller does not report Idle.
C19_PassEndsClearedAndIdle ==
    [][\A p \in PassIds :
         /\ (passes[p].pc # "done" /\ passes'[p].pc = "done")
              => (recording_buffer' = <<>> /\ ~agent_is_recording')
         /\ passes'[p].pc \notin {"unborn", "done"} => agent_is_recording'
      ]_vars

\* ----------------------------------------------------------------- C20
\* C20: every call of stop_recording_speakers that is in progress returns,
\* whatever the recorder processes, the capture workers and the processing
\* passes do or fail to do.
C20_StopReturns ==
    \A k \in Calls :
      (calls[k].op = "stop" /\ calls[k].pc \notin {"new", "done"})
        ~> (calls[k].op = "stop" /\ calls[k].pc = "done")

\* A stop has returned True while the capture worker it joined is still
\* running and the processing pass it started has not yet run.
C20_Witness ==
    \E k \in Calls :
      /\ calls[k].pc = "done" /\ calls[k].op = "stop"
      /\ calls[k].result = "true"
      /\ parec_thread # None /\ WorkerAlive(parec_thread)
      /\ \E p \in PassIds : passes[p].by = k /\ passes[p].pc = "p179"

\* ----------------------------------------------------------------- C21
\* The threads that are at a statement that reads or writes the
\* controller's accumulation buffer self.recording_buffer (main.py 122, 179,
\* 187, 250, 267-268), none of which takes a lock.
AtRecordingBuffer ==
    [producer |-> {w \in ProcIds : workers[w].pc = "w324"
                                   /\ audio_callback # "none"},
     control  |-> {k \in Calls : calls[k].pc = "s121"},
     pass     |-> {p \in PassIds : passes[p].pc \in {"p179", "p187", "p207"}}]

\* The threads that are at a statement that reads or writes the recorder
\* handle self.parec_process (audio_capture.py 276, 305-311, 359-369).
AtRecorderHandle ==
    [producer |-> {w \in ProcIds : workers[w].pc \in {"w305", "w311"}},
     control  |-> {k \in Calls :
                     calls[k].pc \in {"b276", "c356", "c362", "c366", "c369"}},
     pass     |-> {}]

\* Threads of at most one kind are at the storage.
NotShared(at) ==
    \A a, b \in {"producer", "control", "pass"} :
      (at[a] # {} /\ at[b] # {}) => a = b

\* C21 as stated: no frame storage other than the Sample Buffer and no
\* handle is read or written by more than one of the producer thread, the
\* control thread and the processing thread: at no time are threads of two
\* kinds at statements that access the accumulation buffer, or the recorder
\* handle.
C21_OnlySampleBufferShared ==
    NotShared(AtRecordingBuffer) /\ NotShared(AtRecorderHandle)

\* ----------------------------------------------------------------- C22
\* Worker w leaves its read loop in this step.
LeavesLoop(w) == workers[w].pc # "done" /\ workers'[w].pc = "done"

\* The three conditions as they are when the worker leaves: the active flag
\* is clear, the recorder process has exited, or the read returned nothing.
FlagCleared == ~is_recording
RecorderExited == parec_process # None /\ procs[parec_process] = "exited"
ZeroLengthRead(w) == workers'[w].exit = "eof"

\* A worker that has left the loop makes no step any more: it writes
\* nothing to the Sample Buffer, the Delivery Queue or the user callback,
\* and holds no chunk it could write.
NoWriteAfterLoop(w) ==
    workers[w].pc = "done" => (workers'[w] = workers[w] /\ workers[w].chunk = 0)

\* C22 as stated: a worker leaves the loop only when the flag is clear, the
\* recorder has exited or a zero-length read occurred, and writes nothing
\* afterwards.
C22_LoopExitsOnThreeConditions ==
    [][\A w \in ProcIds :
         /\ LeavesLoop(w) => FlagCleared \/ RecorderExited \/ ZeroLengthRead(w)
         /\ NoWriteAfterLoop(w)]_vars

\* C22 amended: a worker leaves the loop only when the flag is clear, the
\* recorder handle has been released or its process has exited, a
\* zero-length read occurred, or an exception was raised in the iteration
\* and caught by the worker; it writes nothing afterwards.
C22_LoopExitsOnConditionOrException ==
    [][\A w \in ProcIds :
         /\ LeavesLoop(w) => \/ FlagCleared \/ RecorderExited
                             \/ parec_process = None
                             \/ ZeroLengthRead(w)
                             \/ workers'[w].exit = "raised"
         /\ NoWriteAfterLoop(w)]_vars

\* A worker has left the loop on an exception while the flag is set and the
\* recorder is running, after it had written a chunk.
C22_Witness ==
    \E w \in ProcIds :
      /\ workers[w].pc = "done" /\ workers[w].exit = "raised"
      /\ is_recording
      /\ parec_process # None /\ ProcAlive(parec_process)
      /\ audio_buffer # <<>>

\* ----------------------------------------------------------------- C23
\* C23 as stated, the reporting half: when a worker has ended on an
\* exception while the capture is active, and when a processing pass has
\* ended on an exception, the observers have received an 'error' status.
C23_FailuresReported ==
    /\ \A w \in ProcIds :
         (workers[w].pc = "done" /\ workers[w].exit = "raised" /\ is_recording)
           => HasStatus("error")
    /\ \A p \in PassIds :
         (passes[p].pc = "done" /\ passes[p].status = "error")
           => HasStatus("error")

\* ----------------------------------------------------------------- C24
\* The callback returns to the driver in this step.
CallbackReturns == driver.pc = "a206" /\ driver'.pc = "idle"

\* C24: every return of _audio_callback gives the driver paContinue,
\* whatever the frame, the status flags and the queue, and leaves the stream
\* as it is; a started stream ceases to be started only in a step of a call
\* on the capture object, never in a step of the driver thread.
C24_CallbackAlwaysContinues ==
    [][/\ CallbackReturns => (driver'.directive = "paContinue"
                               /\ stream' = stream)
       /\ (stream = "started" /\ stream' # "started")
            => (driver' = driver /\ \E k \in Calls : calls'[k] # calls[k])
      ]_vars

\* The callback has returned paContinue a second time, the queue holding
\* the earlier frame when it was called, and the stream is still started.
C24_Witness ==
    /\ driver.pc = "idle" /\ driver.directive = "paContinue"
    /\ Len(audio_queue) >= 2
    /\ stream = "started"

\* ----------------------------------------------------------------- C25
\* Call k of stop_capture returns in this step.
StopCaptureReturns(k) ==
    calls[k].pc # "done" /\ calls'[k].pc = "done" /\ calls'[k].op = "a_stop"

\* C25 as stated: a stop_capture that finds the backend stopped changes
\* nothing and touches no stream, and a stop_capture made while a stream
\* handle is held returns with no handle held.
C25_StopCaptureReleasesStream ==
    [][\A k \in Calls :
         StopCaptureReturns(k) =>
           /\ (calls[k].pc = "new" /\ ~is_recording)
                => UNCHANGED <<capVars, bufVars, driver>>
           /\ stream # "none" => stream' = "none"]_vars

\* ----------------------------------------------------------------- C26
\* C26 as stated, the failure half: on a host where the monitor policy
\* finds no device, no recorder process and no stream is ever opened, every
\* start returns False, and the controller is Idle whenever no call is in
\* progress.
C26_NoMonitorNoCapture ==
    find_monitor_device(list_audio_devices) = None =>
      /\ \A p \in ProcIds : procs[p] = "unborn"
      /\ stream = "none"
      /\ \A k \in Calls :
           (calls[k].op = "start" /\ calls[k].pc = "done")
             => calls[k].result = "false"
      /\ Quiet => ~agent_is_recording

\* ----------------------------------------------------------------- C27
\* C27: the list a selection has enumerated holds the readable devices of
\* the host and no other, each once, in index order and with the name and
\* channel count the host gives; devices whose query raises are left out
\* and the others are still listed.
C27_EnumerationSkipsUnreadable ==
    found.policy # "none" =>
      LET devices == found.devices
      IN  /\ Len(devices) = Cardinality(Enumerated)
          /\ {devices[j].index + 1 : j \in 1..Len(devices)} = Enumerated
          /\ \A j \in 1..Len(devices) :
               /\ j > 1 => devices[j - 1].index < devices[j].index
               /\ devices[j].name = inventory[devices[j].index + 1].name
               /\ devices[j].channels = inventory[devices[j].index + 1].channels

\* An enumeration of three devices of which the second failed its query
\* has listed the first and the third.
C27_Witness ==
    /\ found.policy # "none"
    /\ Len(inventory) = 3 /\ unreadable = {2}
    /\ Len(found.devices) = 2
    /\ found.devices[1].index = 0 /\ found.devices[2].index = 2

\* ----------------------------------------------------------------- C29
\* C29 as stated: when the monitor policy falls through to rule 3 (no
\* input device matches rule 1 or rule 2), a device it selects for its
\* "default" is named "default" and nothing more.
C29_Rule3LiteralDefault ==
    (/\ found.policy = "monitor"
     /\ InputByRule(1) = {} /\ InputByRule(2) = {}
     /\ found.device # None
     /\ "default" \in inventory[found.device].name)
      => inventory[found.device].name = {"default"}

\* ----------------------------------------------------------------- C28
\* A stop that went through the backend has returned True and the pass it
\* started has ended, no call being in progress: a stop-and-flush has
\* completed.
FlushCompleted ==
    /\ Quiet
    /\ \E p \in PassIds :
         /\ passes[p].pc = "done"
         /\ calls[passes[p].by].op = "stop" /\ calls[passes[p].by].pc = "done"

\* C28 as stated: once a stop-and-flush has completed the Sample Buffer is
\* empty, and the Sample Buffer is empty whenever a start arms the backend
\* for a new session.
C28_StopDrainsSampleBuffer ==
    /\ FlushCompleted => audio_buffer = <<>>
    /\ \A k \in Calls : calls[k].pc = "s121" => audio_buffer = <<>>

\* ----------------------------------------------------------------- C30
\* The session that pass p works for: the one ended by the stop that
\* started the pass.
SessionOfPass(p) == session_of.stop[passes[p].by]

\* C30: a start that arms the backend leaves the accumulation buffer empty,
\* and the audio a pass takes consists only of chunks captured in the
\* session the pass works for, between that session's start and its stop.
C30_PassTakesOnlyItsSession ==
    [][/\ \A k \in Calls :
            calls[k].pc = "s121" /\ calls'[k].pc # "s121"
            => recording_buffer' = <<>>
       /\ \A p \in PassIds :
            PassTakesAudio(p)
            => \A i \in 1..Len(recording_buffer) :
                 session_of.chunk[recording_buffer[i]] = SessionOfPass(p)]_vars

\* ----------------------------------------------------------------- C31
\* Worker w takes the step it is at.
WorkerActs(w, pc) == workers[w].pc = pc /\ workers'[w] # workers[w]

\* The Sample Buffer holds the chunks in the order in which they were read,
\* each of them once.
InReadOrder(buf) == \A i, j \in 1..Len(buf) : i < j => buf[i] < buf[j]

\* C31: a worker that has read and converted a chunk calls the callback,
\* then appends the chunk to the Sample Buffer, then puts it on the queue,
\* in this order; every chunk read is in the Sample Buffer once, or with a
\* worker that is about to append it, and the chunks are in the Sample
\* Buffer in the order in which they were read.
C31_ChunkPipelineInOrder ==
    [][/\ \A w \in ProcIds :
            /\ WorkerActs(w, "w324")
               => /\ workers'[w].pc = "w327"
                  /\ UNCHANGED <<audio_buffer, audio_queue>>
            /\ WorkerActs(w, "w327")
               => /\ workers'[w].pc = "w332"
                  /\ audio_buffer' = Append(audio_buffer, workers[w].chunk)
                  /\ UNCHANGED audio_queue
            /\ WorkerActs(w, "w332")
               => /\ workers'[w].pc = "w305"
                  /\ audio_queue' = Append(audio_queue, workers[w].chunk)
                  /\ UNCHANGED audio_buffer
       /\ \A c \in 1..nread' :
            c \in Range(audio_buffer') \/ HeldBeforeAppend(c)'
       /\ InReadOrder(audio_buffer')]_vars

\* ----------------------------------------------------------------- C32
\* C32: the callback add_audio_to_recording changes the accumulation buffer
\* only when the controller's flag is set, and then by appending the chunk
\* it was given; a chunk delivered while the controller is Idle leaves the
\* buffer as it is.
C32_RecordsOnlyWhileRecording ==
    [][\A w \in ProcIds :
         WorkerActs(w, "w324")
         => /\ recording_buffer' # recording_buffer
               => /\ agent_is_recording
                  /\ recording_buffer' =
                       Append(recording_buffer, workers[w].chunk)
            /\ ~agent_is_recording
               => recording_buffer' = recording_buffer]_vars

\* A chunk captured and delivered with the controller Idle: the worker has
\* just passed it to the callback and it is not in the buffer.
C32_Witness ==
    \E w \in ProcIds :
      /\ workers[w].pc = "w327"
      /\ workers[w].chunk \in delivered
      /\ session_of.chunk[workers[w].chunk] = 0
      /\ workers[w].chunk \notin Range(recording_buffer)
      /\ ~agent_is_recording
      /\ Quiet

\* ----------------------------------------------------------------- C33
\* The processing passes that have been started.
Spawned == {p \in PassIds : passes[p].pc # "unborn"}

\* C33: no two processing passes are started for the same recording
\* session, however the stop signals overlap.
C33_OnePassPerSession ==
    \A p, q \in Spawned : SessionOfPass(p) = SessionOfPass(q) => p = q

\* ----------------------------------------------------------------- C34
\* The chunks in the accumulation buffer that were captured in a session
\* opened after the one pass p works for.
NewSessionFrames(p) ==
    {c \in Range(recording_buffer) : session_of.chunk[c] > SessionOfPass(p)}

\* Pass p replaces the accumulation buffer (main.py 250).
PassClearsBuffer(p) ==
    /\ passes[p].pc = "p207" /\ passes'[p] # passes[p]
    /\ recording_buffer' # recording_buffer

\* C34: a pass that is still running when the next session has been opened
\* neither takes nor clears a frame of that session: in the step in which
\* the pass takes its audio, and in the step in which it clears the buffer,
\* the buffer holds no frame of a later session.
C34_PassLeavesNewSessionAlone ==
    [][\A p \in PassIds :
         PassTakesAudio(p) \/ PassClearsBuffer(p)
         => NewSessionFrames(p) = {}]_vars

\* ----------------------------------------------------------------- C35
\* C35: whenever no start or stop call is in progress, the controller's
\* flag equals the active flag of the capture object.
C35_FlagsAgreeWhenQuiet ==
    Quiet => (agent_is_recording <=> is_recording)

\* ----------------------------------------------------------------- C36
\* The workers that are inside the body of the read loop: the loop
\* condition let them in and they read, or hold a chunk they have read.
InLoopBody == {w \in ProcIds : workers[w].pc \in {"w311", "w324", "w327", "w332"}}

\* Worker w passes the loop condition (audio_capture.py 305) or reads a
\* chunk (311).
ContinuesOrReads(w) ==
    \/ workers[w].pc = "w305" /\ workers'[w].pc = "w311"
    \/ workers[w].pc = "w311" /\ workers'[w].pc = "w324"

\* C36: at most one worker is inside the read loop at any time, and a
\* worker continues its loop and reads only on the recorder it was started
\* for, never on the recorder of a later session.
C36_OneWorkerOnItsOwnRecorder ==
    [][/\ Cardinality(InLoopBody') <= 1
       /\ \A w \in ProcIds :
            ContinuesOrReads(w) => parec_process = workers[w].proc]_vars

\* ----------------------------------------------------------------- C37
\* Call k is a cleanup that returns in this step, normally.
CleanupReturns(k) ==
    /\ calls[k].op = "cleanup" /\ calls[k].pc # "done"
    /\ calls'[k].pc = "done" /\ calls'[k].result = "returned"

\* C37: when cleanup() returns, no capture is left running: the active flag
\* is clear, no stream is held, no recorder process is alive and the
\* recorder handle is released.
C37_CleanupStopsCapture ==
    [][\A k \in Calls :
         CleanupReturns(k)
         => /\ ~is_recording'
            /\ stream' = "none"
            /\ parec_process' = None
            /\ \A p \in ProcIds : ~ProcAlive(p)']_vars

\* ----------------------------------------------------------------- C38
\* C38: an open stream of Backend A and a live recorder process of Backend B
\* never exist at the same time.
C38_BackendsExclusive ==
    ~(stream # "none" /\ \E p \in ProcIds : ProcAlive(p))

====
